---------------------------- MODULE Spec2Model ----------------------------
(***************************************************************************)
(* Model of the Telegram audio transcriber bot (src/main.py).              *)
(*                                                                         *)
(* Every update the application receives is dispatched to the first        *)
(* handler registered in TelegramBot.run that matches it.  A handler is a  *)
(* coroutine: each `await` of an external call (reply_text, get_file,      *)
(* download_as_bytearray, the pydub conversion, generate_content, delete)  *)
(* is one step, whose outcome (return or raise) the environment chooses.   *)
(* Handlers of different updates may interleave at these steps.            *)
(*                                                                         *)
(* Strings are sequences of chunks, so that an f-string is a concatenation *)
(* and str(e) is the exception's message.                                  *)
(***************************************************************************)
EXTENDS Integers, Sequences, FiniteSets, TLC

\* Number of updates the application receives in a run.
NumUpdates == 2

Updates == 1..NumUpdates

\* Python's None, for the attributes and locals that hold identifiers ...
None == "None"

\* ... and for the locals that hold strings or byte streams (sequences).
Unset == << >>

-----------------------------------------------------------------------------
(* Inputs: the messages of the updates, and what the services answer.      *)

\* A message carries a text (commands are texts), a voice note or an audio
\* file; Telegram never attaches more than one of them to a message.
Messages ==
    { [text |-> "/start", voice |-> None,       audio |-> None],
      [text |-> "/help",  voice |-> None,       audio |-> None],
      [text |-> "hello",  voice |-> None,       audio |-> None],
      [text |-> None,         voice |-> "voice_id", audio |-> None],
      [text |-> None,         voice |-> None,       audio |-> "audio_id"] }

\* update.message of an update that has not arrived yet.
NoMessage == [text |-> None, voice |-> None, audio |-> None]

\* response.text of the model: an English transcription, or the
\* original/translation pair the prompt asks for.
Texts ==
    { <<"hello world">>,
      <<"Original: privet mir", "NL", "Translation: hello world">> }

\* str(e) of the exception an external call raises.
ExcText(op) == <<"failure in " \o op>>

\* 'NoneType' object has no attribute 'get_file'
AttributeErrorText == <<"'NoneType' object has no attribute 'get_file'">>

-----------------------------------------------------------------------------
(* Literals of the source.                                                 *)

welcome_message ==
    << "Welcome to the Audio Transcriber Bot!", "NL", "NL",
       "Send me any voice message or audio file, and I'll transcribe it for you.", "NL",
       "If the audio is in Russian or another language, I'll provide an English translation too!" >>

help_message ==
    << "Here's how to use the bot:", "NL", "NL",
       "1. Send any voice message or audio file", "NL",
       "2. Wait for processing (this may take a moment)", "NL",
       "3. Receive your transcription and translation", "NL", "NL",
       "Commands:", "NL",
       "/start - Start the bot", "NL",
       "/help - Show this help message" >>

ProcessingText == <<"Processing your audio... Please wait.">>

TranscriptionHeader == <<"Transcription and Translation:", "NL", "NL">>

ErrorHeader == <<"Sorry, there was an error processing your audio: ">>

TranscribeErrorPrefix == <<"Error transcribing audio: ">>

\* Mutant: only the first line of the transcription is relayed.
TranscriptionReplyFirstLine(transcription) ==
    TranscriptionHeader \o <<Head(transcription)>>

\* f"Transcription and Translation:\n\n{transcription}"
TranscriptionReply(transcription) == TranscriptionHeader \o transcription

\* Mutant: the error reply does not carry the exception text.
ErrorReplyGeneric(e) == ErrorHeader

\* f"Sorry, there was an error processing your audio: {str(e)}"
ErrorReply(e) == ErrorHeader \o e

\* f"Error transcribing audio: {str(e)}"
TranscribeError(e) == TranscribeErrorPrefix \o e

-----------------------------------------------------------------------------
VARIABLES
    pc,                 \* position of the handler of each update
    msg,                \* update.message
    processing_message, \* handle_audio: the acknowledgement that was sent
    file,               \* handle_audio: the File get_file returned
    audio_data,         \* handle_audio: BytesIO of the downloaded bytes
    wav_file,           \* process_audio: BytesIO of the WAV export
    transcription,      \* process_audio / handle_audio: the text to relay
    exc,                \* the exception caught by (or escaping) the handler
    log,                \* history: the external calls of each update, in order
    chat                \* the bot's messages visible in the user's chat

vars == << pc, msg, processing_message, file, audio_data, wav_file,
           transcription, exc, log, chat >>

\* One external call: the operation, its argument, whether it returned, and
\* what it returned (or the message of what it raised).
Call(op, arg, ok, ret) == [op |-> op, arg |-> arg, ok |-> ok, ret |-> ret]

Init ==
    /\ pc = [u \in Updates |-> "idle"]
    /\ msg = [u \in Updates |-> NoMessage]
    /\ processing_message = [u \in Updates |-> Unset]
    /\ file = [u \in Updates |-> None]
    /\ audio_data = [u \in Updates |-> Unset]
    /\ wav_file = [u \in Updates |-> Unset]
    /\ transcription = [u \in Updates |-> Unset]
    /\ exc = [u \in Updates |-> Unset]
    /\ log = [u \in Updates |-> << >>]
    /\ chat = [u \in Updates |-> << >>]

-----------------------------------------------------------------------------
(* TelegramBot.run: the handlers, in registration order.                   *)

IsCommand(m, name) == m.text # None /\ m.text = "/" \o name

\* Mutant: the message handler is registered with filters.ALL.
AudioFilterAll(m) == TRUE

\* filters.VOICE | filters.AUDIO
AudioFilter(m) == m.voice # None \/ m.audio # None

Handler(m) ==
    IF IsCommand(m, "start") THEN "start"
    ELSE IF IsCommand(m, "help") THEN "help"
    ELSE IF AudioFilter(m) THEN "handle_audio"
    ELSE "dropped"

\* The application receives update u (updates arrive in order) and starts
\* the handler that matches its message, if any.
Dispatch(u) ==
    /\ pc[u] = "idle"
    /\ \A v \in Updates : v < u => pc[v] # "idle"
    /\ \E m \in Messages :
        /\ msg' = [msg EXCEPT ![u] = m]
        /\ pc' = [pc EXCEPT ![u] = Handler(m)]
    /\ UNCHANGED << processing_message, file, audio_data, wav_file,
                    transcription, exc, log, chat >>

-----------------------------------------------------------------------------
(* update.message.reply_text(body): returns the sent Message, or raises.   *)

ReplyText(u, body, ok) ==
    /\ log' = [log EXCEPT ![u] =
                 Append(@, Call("reply_text", body, ok,
                                IF ok THEN body ELSE ExcText("reply_text")))]
    /\ chat' = [chat EXCEPT ![u] = IF ok THEN Append(@, body) ELSE @]

\* TelegramBot.start
Start(u) ==
    /\ pc[u] = "start"
    /\ \E ok \in BOOLEAN :
        /\ ReplyText(u, welcome_message, ok)
        /\ pc' = [pc EXCEPT ![u] = IF ok THEN "done" ELSE "raised"]
        /\ exc' = [exc EXCEPT ![u] = IF ok THEN @ ELSE ExcText("reply_text")]
    /\ UNCHANGED << msg, processing_message, file, audio_data, wav_file,
                    transcription >>

\* TelegramBot.help
Help(u) ==
    /\ pc[u] = "help"
    /\ \E ok \in BOOLEAN :
        /\ ReplyText(u, help_message, ok)
        /\ pc' = [pc EXCEPT ![u] = IF ok THEN "done" ELSE "raised"]
        /\ exc' = [exc EXCEPT ![u] = IF ok THEN @ ELSE ExcText("reply_text")]
    /\ UNCHANGED << msg, processing_message, file, audio_data, wav_file,
                    transcription >>

-----------------------------------------------------------------------------
(* TelegramBot.handle_audio.  Its whole body is inside try/except          *)
(* Exception: a step that raises sets e and continues at the handler.      *)

\* Mutant: a step's exception is swallowed and the pipeline goes on.
TryNextIgnoring(ok, next) == next

\* Mutant: the acknowledgement is deleted in a finally clause.
TryNextFinally(ok, next) == IF ok THEN next ELSE "delete"

\* Mutant: a failed download is retried.
TryNextRetry(ok, next) ==
    IF ok THEN next ELSE IF next = "convert" THEN "download" ELSE "except"

\* Where the try block continues after a step that returned (ok) or raised.
TryNext(ok, next) == IF ok THEN next ELSE "except"

\* The attachment get_file is called on: update.message.voice if it is set,
\* update.message.audio otherwise (None when the message has neither).
SelectAttachment(m) == IF m.voice # None THEN m.voice ELSE m.audio

\* processing_message = await update.message.reply_text("Processing ...")
SendAck(u) ==
    /\ pc[u] = "handle_audio"
    /\ \E ok \in BOOLEAN :
        /\ ReplyText(u, ProcessingText, ok)
        /\ processing_message' =
               [processing_message EXCEPT ![u] = IF ok THEN ProcessingText ELSE @]
        /\ exc' = [exc EXCEPT ![u] = IF ok THEN @ ELSE ExcText("reply_text")]
        /\ pc' = [pc EXCEPT ![u] = TryNext(ok, "get_file")]
    /\ UNCHANGED << msg, file, audio_data, wav_file, transcription >>

\* file = await update.message.{voice,audio}.get_file()
GetFile(u) ==
    /\ pc[u] = "get_file"
    /\ LET a == SelectAttachment(msg[u]) IN
         IF a = None
         THEN \* None.get_file(): AttributeError, no call is made
              /\ exc' = [exc EXCEPT ![u] = AttributeErrorText]
              /\ pc' = [pc EXCEPT ![u] = TryNext(FALSE, "download")]
              /\ UNCHANGED << file, log >>
         ELSE \E ok \in BOOLEAN :
              /\ log' = [log EXCEPT ![u] =
                           Append(@, Call("get_file", a, ok,
                                          IF ok THEN a ELSE ExcText("get_file")))]
              /\ file' = [file EXCEPT ![u] = IF ok THEN a ELSE @]
              /\ exc' = [exc EXCEPT ![u] = IF ok THEN @ ELSE ExcText("get_file")]
              /\ pc' = [pc EXCEPT ![u] = TryNext(ok, "download")]
    /\ UNCHANGED << msg, processing_message, audio_data, wav_file,
                    transcription, chat >>

\* AudioTranscriber.download_audio_file: the bytes of the file, in a BytesIO
DownloadAudioFile(u) ==
    /\ pc[u] = "download"
    /\ \E ok \in BOOLEAN :
        LET binary == <<"bytes", file[u]>> IN
        /\ log' = [log EXCEPT ![u] =
                     Append(@, Call("download_as_bytearray", file[u], ok,
                                    IF ok THEN binary
                                    ELSE ExcText("download_as_bytearray")))]
        /\ audio_data' = [audio_data EXCEPT ![u] = IF ok THEN binary ELSE @]
        /\ exc' = [exc EXCEPT ![u] =
                     IF ok THEN @ ELSE ExcText("download_as_bytearray")]
        /\ pc' = [pc EXCEPT ![u] = TryNext(ok, "convert")]
    /\ UNCHANGED << msg, processing_message, file, wav_file, transcription,
                    chat >>

\* AudioTranscriber.convert_to_wav (first step of process_audio):
\* AudioSegment.from_file(...).export(format='wav'), rewound
ConvertToWav(u) ==
    /\ pc[u] = "convert"
    /\ \E ok \in BOOLEAN :
        LET wav == <<"wav">> \o audio_data[u] IN
        /\ log' = [log EXCEPT ![u] =
                     Append(@, Call("convert_to_wav", audio_data[u], ok,
                                    IF ok THEN wav ELSE ExcText("convert_to_wav")))]
        /\ wav_file' = [wav_file EXCEPT ![u] = IF ok THEN wav ELSE @]
        /\ exc' = [exc EXCEPT ![u] = IF ok THEN @ ELSE ExcText("convert_to_wav")]
        /\ pc' = [pc EXCEPT ![u] = TryNext(ok, "transcribe")]
    /\ UNCHANGED << msg, processing_message, file, audio_data, transcription,
                    chat >>

\* What the model answers to a generate_content call: response.text, or the
\* message of the exception raised by the call or by reading response.text.
Responses ==
    { [ok |-> TRUE, ret |-> t] : t \in Texts }
        \cup { [ok |-> FALSE, ret |-> ExcText("generate_content")] }

\* Mutant: transcribe_audio keeps the last transcription in a cache shared
\* by all updates and returns it when there is one.
TranscribeResultCached(u, r) ==
    IF \E v \in Updates \ {u} : transcription[v] # Unset
    THEN transcription[CHOOSE v \in Updates \ {u} : transcription[v] # Unset]
    ELSE IF r.ok THEN r.ret ELSE TranscribeError(r.ret)

\* Mutant: the except branch of transcribe_audio returns str(e) alone.
TranscribeResultRaw(u, r) == r.ret

\* What transcribe_audio returns for update u on response r of the model:
\* response.text, or the error string built in its except branch.
TranscribeResult(u, r) == IF r.ok THEN r.ret ELSE TranscribeError(r.ret)

\* AudioTranscriber.transcribe_audio (second step of process_audio): it
\* catches every Exception itself, so it always returns a string.
TranscribeAudio(u) ==
    /\ pc[u] = "transcribe"
    /\ \E r \in Responses :
        LET audio_b64 == <<"base64">> \o wav_file[u] IN
        /\ log' = [log EXCEPT ![u] =
                     Append(@, Call("generate_content", audio_b64, r.ok, r.ret))]
        /\ transcription' = [transcription EXCEPT ![u] = TranscribeResult(u, r)]
        /\ pc' = [pc EXCEPT ![u] = TryNext(TRUE, "reply")]
    /\ UNCHANGED << msg, processing_message, file, audio_data, wav_file, exc,
                    chat >>

\* await update.message.reply_text(f"Transcription and Translation:...")
SendTranscription(u) ==
    /\ pc[u] = "reply"
    /\ \E ok \in BOOLEAN :
        /\ ReplyText(u, TranscriptionReply(transcription[u]), ok)
        /\ exc' = [exc EXCEPT ![u] = IF ok THEN @ ELSE ExcText("reply_text")]
        /\ pc' = [pc EXCEPT ![u] = TryNext(ok, "delete")]
    /\ UNCHANGED << msg, processing_message, file, audio_data, wav_file,
                    transcription >>

\* The chat without message m.
Without(c, m) == SelectSeq(c, LAMBDA b : b # m)

\* await processing_message.delete()
DeleteAck(u) ==
    /\ pc[u] = "delete"
    /\ \E ok \in BOOLEAN :
        /\ log' = [log EXCEPT ![u] =
                     Append(@, Call("delete", processing_message[u], ok,
                                    IF ok THEN Unset ELSE ExcText("delete")))]
        /\ chat' = [chat EXCEPT ![u] =
                      IF ok THEN Without(@, processing_message[u]) ELSE @]
        /\ exc' = [exc EXCEPT ![u] = IF ok THEN @ ELSE ExcText("delete")]
        /\ pc' = [pc EXCEPT ![u] = TryNext(ok, "done")]
    /\ UNCHANGED << msg, processing_message, file, audio_data, wav_file,
                    transcription >>

\* except Exception as e: await update.message.reply_text(f"Sorry ... {str(e)}")
\* An exception raised here escapes the handler.
ReportError(u) ==
    /\ pc[u] = "except"
    /\ \E ok \in BOOLEAN :
        /\ ReplyText(u, ErrorReply(exc[u]), ok)
        /\ exc' = [exc EXCEPT ![u] = IF ok THEN @ ELSE ExcText("reply_text")]
        /\ pc' = [pc EXCEPT ![u] = IF ok THEN "done" ELSE "raised"]
    /\ UNCHANGED << msg, processing_message, file, audio_data, wav_file,
                    transcription >>

-----------------------------------------------------------------------------
Next ==
    \E u \in Updates :
        \/ Dispatch(u)
        \/ Start(u)
        \/ Help(u)
        \/ SendAck(u)
        \/ GetFile(u)
        \/ DownloadAudioFile(u)
        \/ ConvertToWav(u)
        \/ TranscribeAudio(u)
        \/ SendTranscription(u)
        \/ DeleteAck(u)
        \/ ReportError(u)

Spec == Init /\ [][Next]_vars

\* One awaited call of the handler of update u completes.
Step(u) ==
    \/ Start(u) \/ Help(u) \/ SendAck(u) \/ GetFile(u)
    \/ DownloadAudioFile(u) \/ ConvertToWav(u) \/ TranscribeAudio(u)
    \/ SendTranscription(u) \/ DeleteAck(u) \/ ReportError(u)

\* The application as run() builds it (no concurrent_updates, blocking
\* handlers) awaits the handler of an update before it takes the next one.
SerialNext ==
    \E u \in Updates :
        \/ /\ \A v \in Updates : pc[v] = "idle" \/ pc[v] \in {"done", "raised", "dropped"}
           /\ Dispatch(u)
        \/ Step(u)

\* Each external call eventually returns or raises, and the event loop then
\* resumes the coroutine that awaits it.
FairSpec ==
    Init /\ [][SerialNext]_vars /\ \A u \in Updates : WF_vars(Step(u))

-----------------------------------------------------------------------------
(* Vocabulary of the properties.                                           *)

HasPrefix(str, prefix) ==
    Len(str) >= Len(prefix) /\ SubSeq(str, 1, Len(prefix)) = prefix

IsAck(c) == c.op = "reply_text" /\ c.arg = ProcessingText

IsTranscriptionReply(c) ==
    c.op = "reply_text" /\ HasPrefix(c.arg, TranscriptionHeader)

IsErrorReply(c) == c.op = "reply_text" /\ HasPrefix(c.arg, ErrorHeader)

\* The positions in the history of update u of the calls that satisfy P.
Where(u, P(_)) == { i \in 1..Len(log[u]) : P(log[u][i]) }

Finished(u) == pc[u] \in {"done", "raised", "dropped"}

\* Update u was dispatched to handle_audio.
InHandleAudio(u) ==
    \/ pc[u] \in {"handle_audio", "get_file", "download", "convert",
                  "transcribe", "reply", "delete", "except"}
    \/ (log[u] # << >> /\ IsAck(log[u][1]))

InChat(u, body) == \E k \in 1..Len(chat[u]) : chat[u][k] = body

-----------------------------------------------------------------------------
\* C1: in every handled voice/audio update the steps run in the order
\* download -> transcode -> remote-API call -> transcription reply: a step
\* is started only after every earlier step of the same update has
\* returned (download_audio_file and convert_to_wav without raising,
\* transcribe_audio with its string), so no transcription reply is sent for
\* an update whose download or transcode did not complete.
C1_PipelineOrder ==
    \A u \in Updates : \A i \in 1..Len(log[u]) :
        LET c == log[u][i]
            Before(op, needOk) ==
                \E j \in 1..(i-1) :
                    log[u][j].op = op /\ (needOk => log[u][j].ok)
        IN  /\ c.op = "convert_to_wav" => Before("download_as_bytearray", TRUE)
            /\ c.op = "generate_content" =>
                   /\ Before("download_as_bytearray", TRUE)
                   /\ Before("convert_to_wav", TRUE)
            /\ IsTranscriptionReply(c) =>
                   /\ Before("download_as_bytearray", TRUE)
                   /\ Before("convert_to_wav", TRUE)
                   /\ Before("generate_content", FALSE)
                   /\ transcription[u] # Unset

C1_Witness ==
    \E u \in Updates : \E i \in 1..Len(log[u]) :
        /\ IsTranscriptionReply(log[u][i]) /\ log[u][i].ok
        /\ i = 6

-----------------------------------------------------------------------------
\* The first five calls of update u (acknowledgement, get_file, download,
\* convert, generate_content) were made and all returned.
AllSucceeded(u) ==
    /\ Len(log[u]) >= 5
    /\ \A i \in 1..5 : log[u][i].ok
    /\ log[u][5].op = "generate_content"

\* C2: when the acknowledgement send, get_file, the download, the transcode
\* and the generate_content call of an update all succeeded, the handler
\* (once past its reply step) has sent exactly one transcription reply, on
\* the update's own message, whose body is the header followed by exactly
\* the text the model returned; that reply is in the user's chat exactly
\* when the reply_text call returned.
C2_ExactlyOneTranscription ==
    \A u \in Updates :
        (AllSucceeded(u) /\ pc[u] \in {"delete", "except", "done", "raised"}) =>
            /\ Where(u, IsTranscriptionReply) = {6}
            /\ log[u][6].arg = TranscriptionHeader \o log[u][5].ret
            /\ log[u][5].ret \in Texts
            /\ log[u][6].ok <=> InChat(u, TranscriptionHeader \o log[u][5].ret)

C2_Witness ==
    \E u \in Updates :
        /\ AllSucceeded(u) /\ pc[u] = "done"
        /\ Len(log[u]) = 7 /\ log[u][6].ok /\ log[u][7].ok
        /\ Len(log[u][5].ret) = 3

-----------------------------------------------------------------------------
\* Call i of update u is a step of handle_audio before the transcription
\* reply, and it raised.
EarlyFailure(u, i) ==
    /\ InHandleAudio(u)
    /\ i \in 1..Len(log[u])
    /\ ~log[u][i].ok
    /\ \/ i = 1 /\ IsAck(log[u][i])
       \/ log[u][i].op \in {"get_file", "download_as_bytearray", "convert_to_wav"}

\* C3: when a step of handle_audio before the transcription reply raises
\* (the acknowledgement send, get_file, download_audio_file or
\* convert_to_wav), no further pipeline step is run and no transcription
\* reply is sent; the only call that follows is one error reply whose body
\* is the error header followed by the text of that exception, and the
\* handler ends normally when that reply is delivered (an exception escapes
\* it only when the error reply itself raised).
C3_ErrorReporting ==
    \A u \in Updates : \A i \in 1..Len(log[u]) :
        EarlyFailure(u, i) =>
            /\ pc[u] \in {"except", "done", "raised"}
            /\ Where(u, IsTranscriptionReply) = {}
            /\ Len(log[u]) <= i + 1
            /\ pc[u] = "except" <=> Len(log[u]) = i
            /\ Len(log[u]) = i + 1 =>
                   /\ log[u][i+1].op = "reply_text"
                   /\ log[u][i+1].arg = ErrorHeader \o log[u][i].ret
                   /\ log[u][i+1].ok <=> pc[u] = "done"
                   /\ log[u][i+1].ok <=> InChat(u, ErrorHeader \o log[u][i].ret)

C3_Witness ==
    \E u \in Updates :
        /\ EarlyFailure(u, 4)
        /\ pc[u] = "done"
        /\ InChat(u, ErrorReply(ExcText("convert_to_wav")))

-----------------------------------------------------------------------------
\* What a handler that shares nothing does, as a function of the update's
\* own message and of the outcomes of its own calls.
NoCall == [op |-> "none", arg |-> Unset]

\* The call that follows the first n calls of history h of an update whose
\* message is m (it depends on m, n and the outcome of call n alone).
ExpectedCall(m, h, n) ==
    IF n = 0
    THEN IF m.text = "/start" THEN [op |-> "reply_text", arg |-> welcome_message]
         ELSE IF m.text = "/help" THEN [op |-> "reply_text", arg |-> help_message]
         ELSE IF m.voice # None \/ m.audio # None
              THEN [op |-> "reply_text", arg |-> ProcessingText]
         ELSE NoCall
    ELSE LET last == h[n]
             Report == [op |-> "reply_text", arg |-> ErrorHeader \o last.ret]
         IN  IF n = 1 /\ m.text # None THEN NoCall
             ELSE IF IsErrorReply(last) THEN NoCall
             ELSE IF ~last.ok /\ last.op # "generate_content" THEN Report
             ELSE IF IsAck(last)
                  THEN [op |-> "get_file",
                        arg |-> IF m.voice # None THEN m.voice ELSE m.audio]
             ELSE IF last.op = "get_file"
                  THEN [op |-> "download_as_bytearray", arg |-> last.ret]
             ELSE IF last.op = "download_as_bytearray"
                  THEN [op |-> "convert_to_wav", arg |-> last.ret]
             ELSE IF last.op = "convert_to_wav"
                  THEN [op |-> "generate_content", arg |-> <<"base64">> \o last.ret]
             ELSE IF last.op = "generate_content"
                  THEN [op |-> "reply_text",
                        arg |-> TranscriptionHeader \o
                                  (IF last.ok THEN last.ret
                                   ELSE TranscribeErrorPrefix \o last.ret)]
             ELSE IF IsTranscriptionReply(last)
                  THEN [op |-> "delete", arg |-> ProcessingText]
             ELSE NoCall

\* The bot's messages the first n calls of history h leave in the chat.
RECURSIVE ExpectedChat(_, _)
ExpectedChat(h, n) ==
    IF n = 0 THEN << >>
    ELSE LET c == h[n]
             before == ExpectedChat(h, n - 1)
         IN  IF c.op = "reply_text" /\ c.ok THEN Append(before, c.arg)
             ELSE IF c.op = "delete" /\ c.ok
                  THEN SelectSeq(before, LAMBDA b : b # c.arg)
             ELSE before

\* C4: no state is shared between updates.  Every external call an update
\* makes (in particular every reply) and the contents of its chat are a
\* function of the update's own message and of the outcomes of its own
\* earlier calls, whatever other updates were handled before it or are
\* being handled concurrently.
C4_NoSharedState ==
    \A u \in Updates :
        /\ \A i \in 1..Len(log[u]) :
               LET e == ExpectedCall(msg[u], log[u], i - 1)
               IN  log[u][i].op = e.op /\ log[u][i].arg = e.arg
        /\ Finished(u) => ExpectedCall(msg[u], log[u], Len(log[u])) = NoCall
        /\ chat[u] = ExpectedChat(log[u], Len(log[u]))

\* Two handlers interleave and relay different texts.
C4_Witness ==
    /\ pc[1] = "delete" /\ pc[2] = "done"
    /\ transcription[1] \in Texts /\ transcription[2] \in Texts
    /\ transcription[1] # transcription[2]
    /\ InChat(1, TranscriptionReply(transcription[1]))
    /\ InChat(2, TranscriptionReply(transcription[2]))

-----------------------------------------------------------------------------
\* C5: handle_audio runs only for messages the VOICE | AUDIO filter admits;
\* get_file is called on the message's voice when it has one and on its
\* audio otherwise, the attachment is never missing (no AttributeError),
\* and the file that is downloaded is the one get_file returned for it.
C5_FileSelection ==
    \A u \in Updates :
        InHandleAudio(u) =>
            LET m == msg[u]
                want == IF m.voice # None THEN m.voice ELSE m.audio
            IN  /\ m.voice # None \/ m.audio # None
                /\ want # None
                /\ exc[u] # AttributeErrorText
                /\ pc[u] \in {"download", "convert", "transcribe", "reply",
                              "delete"} => file[u] = want
                /\ \A i \in 1..Len(log[u]) :
                       /\ log[u][i].op = "get_file" => log[u][i].arg = want
                       /\ log[u][i].op = "download_as_bytearray" =>
                              log[u][i].arg = want

C5_Witness ==
    \E u \in Updates : \E v \in Updates :
        /\ msg[u].voice = None /\ msg[u].audio = "audio_id"
        /\ Where(u, LAMBDA c : c.op = "download_as_bytearray" /\ c.ok) # {}
        /\ msg[v].voice = "voice_id"
        /\ Where(v, LAMBDA c : c.op = "download_as_bytearray" /\ c.ok) # {}

-----------------------------------------------------------------------------
\* Call i of update u is a generate_content call that raised.
ApiFailure(u, i) ==
    /\ i \in 1..Len(log[u])
    /\ log[u][i].op = "generate_content"
    /\ ~log[u][i].ok

\* C6: transcribe_audio never raises.  When the generate_content call (or
\* reading the stream or response.text) fails, it returns 'Error
\* transcribing audio: <exception text>'; the handler does not enter its
\* except branch for that failure but sends the string in the normal
\* transcription reply, and once that reply is sent it goes on to delete
\* the acknowledgement.
C6_TranscribeNeverRaises ==
    \A u \in Updates : \A i \in 1..Len(log[u]) :
        ApiFailure(u, i) =>
            LET text == TranscribeErrorPrefix \o log[u][i].ret IN
            /\ transcription[u] = text
            /\ exc[u] # log[u][i].ret
            /\ Len(log[u]) = i <=> pc[u] = "reply"
            /\ Len(log[u]) > i =>
                   /\ log[u][i+1].op = "reply_text"
                   /\ log[u][i+1].arg = TranscriptionHeader \o text
                   /\ log[u][i+1].ok =>
                          \/ pc[u] = "delete"
                          \/ /\ Len(log[u]) > i + 1
                             /\ log[u][i+2].op = "delete"
                             /\ log[u][i+2].ok =>
                                    /\ pc[u] = "done"
                                    /\ ~InChat(u, ProcessingText)
                                    /\ InChat(u, TranscriptionHeader \o text)

C6_Witness ==
    \E u \in Updates :
        /\ ApiFailure(u, 5)
        /\ pc[u] = "done"
        /\ chat[u] = << TranscriptionReply(
                          TranscribeError(ExcText("generate_content"))) >>

-----------------------------------------------------------------------------
\* C7: the acknowledgement is the first call of handle_audio; it is deleted
\* only after the transcription reply of the same update has been sent;
\* and on every path into the except branch from before the transcription
\* reply was sent the acknowledgement is never deleted: if it was
\* delivered, it is still in the chat.
C7_Acknowledgement ==
    \A u \in Updates :
        InHandleAudio(u) =>
            /\ log[u] # << >> => IsAck(log[u][1])
            /\ \A i \in 1..Len(log[u]) :
                   log[u][i].op = "delete" =>
                       \E j \in 1..(i-1) :
                           IsTranscriptionReply(log[u][j]) /\ log[u][j].ok
            /\ ( /\ pc[u] \in {"except", "done", "raised"}
                 /\ Where(u, LAMBDA c : IsTranscriptionReply(c) /\ c.ok) = {} ) =>
                     /\ Where(u, LAMBDA c : c.op = "delete") = {}
                     /\ log[u][1].ok <=> InChat(u, ProcessingText)

C7_Witness ==
    \E u \in Updates :
        /\ pc[u] = "done"
        /\ Len(log[u]) = 4
        /\ log[u][3].op = "download_as_bytearray" /\ ~log[u][3].ok
        /\ chat[u] = << ProcessingText,
                        ErrorReply(ExcText("download_as_bytearray")) >>

-----------------------------------------------------------------------------
\* C8: within one handle_audio invocation the transcription reply and the
\* error reply are mutually exclusive: the user never receives both, also
\* when deleting the acknowledgement fails after the transcription reply.
C8_AtMostOneTerminalReply ==
    \A u \in Updates :
        ~ ( /\ \E k \in 1..Len(chat[u]) : HasPrefix(chat[u][k], TranscriptionHeader)
            /\ \E k \in 1..Len(chat[u]) : HasPrefix(chat[u][k], ErrorHeader) )

-----------------------------------------------------------------------------
\* No call of the pipeline is repeated within an invocation.
C9_BoundedWork ==
    \A u \in Updates :
        /\ Cardinality(Where(u, LAMBDA c : c.op = "download_as_bytearray")) <= 1
        /\ Cardinality(Where(u, LAMBDA c : c.op = "convert_to_wav")) <= 1
        /\ Cardinality(Where(u, LAMBDA c : c.op = "generate_content")) <= 1
        /\ Cardinality(Where(u, LAMBDA c : c.op = "reply_text" /\ ~IsAck(c))) <= 2
        /\ Len(log[u]) <= 8

\* C9: every handler invocation terminates when each external call
\* eventually returns or raises; within one invocation the download, the
\* transcode and the remote-API call are each made at most once, and at
\* most two reply_text calls are made besides the acknowledgement.
C9_Termination ==
    /\ []C9_BoundedWork
    /\ \A u \in Updates : (pc[u] # "idle") ~> Finished(u)

\* The longest invocation: everything succeeds but the deletion.
C9_Witness ==
    \E u \in Updates :
        /\ Finished(u)
        /\ Len(log[u]) = 8
        /\ Cardinality(Where(u, LAMBDA c : c.op = "reply_text" /\ ~IsAck(c))) = 2

=============================================================================
